---- MODULE Spec2Model ----
(***************************************************************************)
(* Model of duplicate-file-finder: the library pipeline of src/src/lib.rs  *)
(* (collect_files, group_by_size, group_by_quick_hash, group_by_full_hash, *)
(* write_output) and the binary of src/src/main.rs.                        *)
(*                                                                         *)
(* A file's content is a sequence of bytes over 0..MaxByte.  The two       *)
(* buffer sizes of the program are scaled down to one model byte, so that  *)
(* files longer than the quick-hash prefix and reads that stop between     *)
(* chunks fit in the bounded population.                                   *)
(***************************************************************************)
EXTENDS Integers, Sequences, FiniteSets, TLC

\* ---------------------------------------------------------------- bounds
MaxByte == 1
MaxLen == 2
MaxDirs == 2
MaxLookupFaults == 1
MaxReadFaults == 2
QuickHashRange == 2
MaxGroups == 2
MaxGroupLen == 2
MaxMainFaults == 1
MaxBlock == 2

\* ------------------------------------------------------ program constants
\* lib.rs:424  const QUICK_HASH_SIZE: usize = 8 * 1024     (scaled to 1)
QUICK_HASH_SIZE == 1
\* lib.rs:449  const FULL_HASH_BUFFER_SIZE: usize = 64 * 1024  (scaled to 1)
FULL_HASH_BUFFER_SIZE == 1
\* lib.rs:360  let total_savings: u64: the largest u64 (scaled to 2 bits)
U64_MAX == 3
\* lib.rs:342  BufWriter::new(file): the buffer's capacity (8 KiB), in records
BUF_WRITER_CAPACITY == 2

\* ------------------------------------------------------------ file system
Bytes == 0..MaxByte
\* the contents a file of the tree can have: 1..MaxLen bytes
Contents == UNION {[1..n -> Bytes] : n \in 1..MaxLen}

Paths == {"a", "b", "c", "d"}
Roots == {"r0", "r1", "r2"}

\* The regular files below each directory: r0 is an empty directory, top is
\* the parent of r1 and r2; a path that is no directory has no entries.
Under(root) ==
    CASE root = "r1" -> {"a", "b"}
      [] root = "r2" -> {"c", "d"}
      [] root = "top" -> {"a", "b", "c", "d"}
      [] OTHER -> {}

\* Path::exists and Path::is_dir
Exists(p) == p \in Roots \cup {"top"} \cup Paths
IsDir(p) == p \in Roots \cup {"top"}

\* Option::None of a lookup or a hash, and the states of a slot not yet filled
None == 0 - 1
Pending == 0 - 2

VARIABLES
    fs,              \* path -> content of the (unmodified) tree
    dirs,            \* the roots handed to find_duplicates_in_dirs
    pc,              \* position of the scan
    files,           \* collect_files: the flat list of paths
    size_entries,    \* group_by_size: per file, Pending, None or its size
    size_map,        \* group_by_size: size -> paths
    quick_done,      \* group_by_quick_hash: bucket -> its filtered sub-groups
    potential_dupes, \* group_by_quick_hash: quick hash -> paths
    full_done,       \* group_by_full_hash: candidate group -> its filtered digest groups
    duplicates,      \* group_by_full_hash: digest -> paths (the returned map)
    faults,          \* number of read errors the environment has raised in full_hash
    dropped,         \* path -> number of its entries that got None from a lookup or hash
    partial,         \* <<path, offset>>: full-hash read loops ended by a read error
    arg,             \* the binary's command line argument (main.rs)
    exit_status,     \* the binary's exit status
    entries,         \* write_output: the (size, paths) entries, sorted
    report,          \* write_output: the records in the report file so far
    buffer,          \* write_output: the records in the BufWriter, not yet in the file
                     \* (quick_hash: its zeroed block `buffer`)
    dest,            \* what the report destination does in this call
    result,          \* write_output: what the call returned
    meta_failed      \* number of representative-size lookups that failed

scanVars == <<fs, dirs, pc, files, size_entries, size_map, quick_done, potential_dupes,
              full_done, duplicates, faults, dropped, partial>>
outVars == <<arg, exit_status, entries, report, result, meta_failed, buffer, dest>>
scanVars_but_pc == <<fs, dirs, files, size_entries, size_map, quick_done, potential_dupes,
                     full_done, duplicates, faults, dropped, partial>>
vars == <<scanVars, outVars>>

\* ---------------------------------------------------------------- helpers
Min(a, b) == IF a < b THEN a ELSE b

Range(s) == {s[i] : i \in DOMAIN s}

EmptyMap == <<>>

\* HashMap::entry(k).or_default().push(v)   (the map and the key are taken by
\* value: e holds them, evaluated once)
Push(m, k, v) ==
    CHOOSE r \in {IF e.k \in DOMAIN e.m
                  THEN [e.m EXCEPT ![e.k] = Append(@, v)]
                  ELSE [x \in DOMAIN e.m \cup {e.k} |-> IF x = e.k THEN <<v>> ELSE e.m[x]]
                  : e \in {[m |-> m, k |-> k]}} : TRUE

\* HashMap::extend / insert of every pair of r: a key already present is replaced
InsertAll(m, r) ==
    [k \in DOMAIN m \cup DOMAIN r |-> IF k \in DOMAIN r THEN r[k] ELSE m[k]]

\* .into_iter().filter(|(_, g)| g.len() > 1)
FilterGroups(m) ==
    LET keep == {k \in DOMAIN m : Len(m[k]) > 1}
    IN  [k \in keep |-> m[k]]

\* All orders in which the elements of a finite set can be iterated
RECURSIVE Orders(_)
Orders(S) ==
    IF S = {} THEN {<<>>}
    ELSE UNION {{<<x>> \o o : o \in Orders(S \ {x})} : x \in S}

\* ------------------------------------------------------------------ hashes
\* One-to-one encoding of a byte string (the digest is treated as injective;
\* b is the input, evaluated once)
RECURSIVE Sha256(_)
Sha256(bytes) ==
    CHOOSE h \in {IF b = <<>> THEN 1
                  ELSE Sha256(SubSeq(b, 1, Len(b) - 1)) * (MaxByte + 1) + b[Len(b)]
                  : b \in {bytes}} : TRUE

\* XxHash64::with_seed(seed), write(bytes), finish(): a hash of narrow range
XxHash64(seed, bytes) == (seed + Sha256(bytes)) % QuickHashRange

\* Read::read on a regular file at offset pos into a buffer of buflen bytes
Read(content, pos, buflen) == SubSeq(content, pos + 1, Min(pos + buflen, Len(content)))

\* What the environment does to one call: no error, File::open fails, or the
\* read fails (for full_hash: at offset 0..Len, see FullOutcomes)
Ok == 0 - 1
OpenErr == 0 - 2
ReadErr == 0 - 3

\* quick_hash: outcome is Ok, OpenErr or ReadErr
quick_hash(content, outcome) ==
    IF outcome # Ok THEN None
    ELSE XxHash64(0, Read(content, 0, QUICK_HASH_SIZE))

\* full_hash's read loop: `while let Ok(n) = reader.read(..)` leaves the loop on
\* a read error as it does on end of file.  fail_at is the offset at which the
\* environment fails the read (Ok: never).
RECURSIVE FullHashLoop(_, _, _, _)
FullHashLoop(content, pos, hasher, fail_at) ==
    IF pos = fail_at THEN hasher
    ELSE CHOOSE h \in {IF Len(chunk) = 0 THEN hasher
                       ELSE FullHashLoop(content, pos + Len(chunk), hasher \o chunk, fail_at)
                       : chunk \in {Read(content, pos, FULL_HASH_BUFFER_SIZE)}} : TRUE

\* full_hash: outcome is OpenErr, Ok or the offset at which a read fails
full_hash(content, outcome) ==
    IF outcome = OpenErr THEN None
    ELSE Sha256(FullHashLoop(content, 0, <<>>, outcome))

QuickOutcomes == {Ok, OpenErr, ReadErr}
\* (a read error is raised at an offset before the end of the file)
FullOutcomes(content) == {OpenErr, Ok} \cup (0..Len(content) - 1)

\* the calls of o that return None (File::open or the single read failed)
NumLookupFaults(o) == Cardinality({i \in DOMAIN o : o[i] \in {OpenErr, ReadErr}})

\* the calls of o whose read loop ends on a read error
NumReadFaults(o) == Cardinality({i \in DOMAIN o : o[i] >= 0})

\* --------------------------------------------------------- pipeline stages
\* collect_files: each root's walk, in the order of dirs
RECURSIVE Concat(_)
Concat(ss) == IF ss = <<>> THEN <<>> ELSE Head(ss) \o Concat(Tail(ss))

Walks(ds) == {w \in [DOMAIN ds -> UNION {Orders(Under(r)) : r \in Roots}] :
                 \A i \in DOMAIN ds : w[i] \in Orders(Under(ds[i]))}

\* group_by_size, second half: the loop that fills size_map from size_entries
RECURSIVE SizeMapLoop(_, _, _, _)
SizeMapLoop(fl, sizes, i, m) ==
    IF i > Len(fl) THEN m
    ELSE SizeMapLoop(fl, sizes, i + 1,
                     IF sizes[i] = None THEN m ELSE Push(m, sizes[i], fl[i]))

\* group_by_quick_hash, one bucket: the loop that fills quick_hash_map
RECURSIVE QuickLoop(_, _, _, _, _)
QuickLoop(tree, bucket, o, i, m) ==
    IF i > Len(bucket) THEN m
    ELSE LET qh == quick_hash(tree[bucket[i]], o[i])
         IN  QuickLoop(tree, bucket, o, i + 1,
                       IF qh = None THEN m ELSE Push(m, qh, bucket[i]))

QuickBucket(tree, bucket, o) == FilterGroups(QuickLoop(tree, bucket, o, 1, EmptyMap))

\* group_by_full_hash, one candidate group: the loop that fills hash_map
RECURSIVE FullLoop(_, _, _, _, _)
FullLoop(tree, group, o, i, m) ==
    IF i > Len(group) THEN m
    ELSE LET fh == full_hash(tree[group[i]], o[i])
         IN  FullLoop(tree, group, o, i + 1,
                      IF fh = None THEN m ELSE Push(m, fh, group[i]))

\* (faulty variant: the digest groups are returned without the `g.len() > 1` filter)
FullGroupUnfiltered(tree, group, o) == FullLoop(tree, group, o, 1, EmptyMap)

FullGroup(tree, group, o) == FilterGroups(FullLoop(tree, group, o, 1, EmptyMap))

\* .collect() into a HashMap of the tasks' pairs, tasks taken in `order`
RECURSIVE Collect(_, _, _)
Collect(order, res, m) ==
    IF order = <<>> THEN m
    ELSE Collect(Tail(order), res, InsertAll(m, res[Head(order)]))

\* .filter(|(_, files)| files.len() > 1) on the size buckets
QuickTasks(sm) == {s \in DOMAIN sm : Len(sm[s]) > 1}

\* (faulty variant: the full-hash stage is handed by_size instead of by_quick_hash)
FullInputBySize == size_map

\* group_by_full_hash(by_quick_hash, ..): the candidate groups it is given
FullInput == potential_dupes

\* find_duplicates_in_dirs on the file list fl when no call fails: the three
\* stages in sequence, the two collects taking the workers' results in the
\* orders qo and fo.
SizeStage(tree, fl) ==
    SizeMapLoop(fl, [i \in DOMAIN fl |-> Len(tree[fl[i]])], 1, EmptyMap)

QuickStage(tree, sm) ==
    [s \in QuickTasks(sm) |-> QuickBucket(tree, sm[s], [i \in DOMAIN sm[s] |-> Ok])]

FullStage(tree, pd) ==
    [q \in DOMAIN pd |-> FullGroup(tree, pd[q], [i \in DOMAIN pd[q] |-> Ok])]

Scans(tree, fl) ==
    LET qd == QuickStage(tree, SizeStage(tree, fl))
    IN  UNION {
          LET fd == FullStage(tree, Collect(qo, qd, EmptyMap))
          IN  {Collect(fo, fd, EmptyMap) : fo \in Orders(DOMAIN fd)}
          : qo \in Orders(DOMAIN qd)}

\* ---------------------------------------------------------------- history
CountIn(s, p) == Cardinality({i \in DOMAIN s : s[i] = p})

NoDrops == [p \in Paths |-> 0]

DropsOf(group, o) ==
    [p \in Paths |-> Cardinality({i \in DOMAIN group : group[i] = p /\ o[i] \in {OpenErr, ReadErr}})]

AddDrops(d, e) == [p \in Paths |-> d[p] + e[p]]

\* number of lookups (metadata, open, single read) the environment has failed
LookupFaults == dropped["a"] + dropped["b"] + dropped["c"] + dropped["d"]

\* ------------------------------------------------------------------- Init
\* The paths of one root are interchangeable (the walker emits them in any
\* order), so each root's contents are drawn up to a renaming of its paths.
\* The two roots are interchangeable too (dirs ranges over both orders).
Trees == {t \in [Paths -> Contents] :
             /\ Sha256(t["a"]) <= Sha256(t["b"])
             /\ Sha256(t["c"]) <= Sha256(t["d"])
             /\ \/ Sha256(t["a"]) < Sha256(t["c"])
                \/ Sha256(t["a"]) = Sha256(t["c"]) /\ Sha256(t["b"]) <= Sha256(t["d"])}

Init ==
    /\ fs \in Trees
    /\ dirs \in UNION {[1..n -> Roots] : n \in 1..MaxDirs}
    /\ pc = "start"
    /\ files = <<>>
    /\ size_entries = <<>>
    /\ size_map = EmptyMap
    /\ quick_done = EmptyMap
    /\ potential_dupes = EmptyMap
    /\ full_done = EmptyMap
    /\ duplicates = EmptyMap
    /\ faults = 0
    /\ dropped = NoDrops
    /\ partial = {}
    /\ arg = "r1"
    /\ exit_status = None
    /\ entries = <<>>
    /\ report = <<>>
    /\ result = "none"
    /\ meta_failed = 0
    /\ buffer = <<>>
    /\ dest = "untried"

\* ---------------------------------------------------------------- actions
\* find_duplicates_in_dirs: let files = collect_files(dirs)
CollectFiles ==
    /\ pc = "start"
    /\ \E w \in Walks(dirs) :
         /\ files' = Concat(w)
         /\ size_entries' = [i \in 1..Len(Concat(w)) |-> Pending]
    /\ pc' = "size"
    /\ UNCHANGED <<fs, dirs, size_map, quick_done, potential_dupes, full_done,
                   duplicates, faults, dropped, partial,
                   outVars>>

\* (faulty variant: the closure unwraps the metadata, a failed lookup panics)
SizeLookupUnwrap(i) ==
    /\ pc = "size"
    /\ size_entries[i] = Pending
    /\ \/ /\ size_entries' = [size_entries EXCEPT ![i] = Len(fs[files[i]])]
          /\ UNCHANGED <<dropped, pc>>
       \/ /\ LookupFaults < MaxLookupFaults
          /\ pc' = "panicked"
          /\ dropped' = [dropped EXCEPT ![files[i]] = @ + 1]
          /\ UNCHANGED size_entries
    /\ UNCHANGED <<fs, dirs, files, size_map, quick_done, potential_dupes,
                   full_done, duplicates, faults, partial,
                   outVars>>

\* group_by_size: one worker's closure, file.metadata().ok()?.len()
SizeLookup(i) ==
    /\ pc = "size"
    /\ size_entries[i] = Pending
    /\ \/ /\ size_entries' = [size_entries EXCEPT ![i] = Len(fs[files[i]])]
          /\ UNCHANGED dropped
       \/ /\ LookupFaults < MaxLookupFaults
          /\ size_entries' = [size_entries EXCEPT ![i] = None]
          /\ dropped' = [dropped EXCEPT ![files[i]] = @ + 1]
    /\ UNCHANGED <<fs, dirs, pc, files, size_map, quick_done, potential_dupes,
                   full_done, duplicates, faults, partial,
                   outVars>>

\* (faulty variant: the loop starts without waiting for every lookup)
SizeCollectEarly ==
    /\ pc = "size"
    /\ size_map' = SizeMapLoop(files, size_entries, 1, EmptyMap)
    /\ pc' = "quick"
    /\ UNCHANGED <<fs, dirs, files, size_entries, quick_done, potential_dupes,
                   full_done, duplicates, faults, dropped, partial,
                   outVars>>

\* group_by_size: after the parallel collect, the loop that builds size_map
SizeCollect ==
    /\ pc = "size"
    /\ \A i \in DOMAIN size_entries : size_entries[i] # Pending
    /\ size_map' = SizeMapLoop(files, size_entries, 1, EmptyMap)
    /\ pc' = "quick"
    /\ UNCHANGED <<fs, dirs, files, size_entries, quick_done, potential_dupes,
                   full_done, duplicates, faults, dropped, partial,
                   outVars>>

\* group_by_quick_hash: one worker's closure over one size bucket
QuickHashBucket(s) ==
    /\ pc = "quick"
    /\ s \in QuickTasks(size_map)
    /\ s \notin DOMAIN quick_done
    /\ \E o \in [DOMAIN size_map[s] -> QuickOutcomes] :
         /\ LookupFaults + NumLookupFaults(o) <= MaxLookupFaults
         /\ quick_done' = InsertAll(quick_done, s :> QuickBucket(fs, size_map[s], o))
         /\ dropped' = AddDrops(dropped, DropsOf(size_map[s], o))
    /\ UNCHANGED <<fs, dirs, pc, files, size_entries, size_map, potential_dupes,
                   full_done, duplicates, faults, partial,
                   outVars>>

\* group_by_quick_hash: .collect() of the workers' pairs into potential_dupes
QuickCollect ==
    /\ pc = "quick"
    /\ DOMAIN quick_done = QuickTasks(size_map)
    /\ \E order \in Orders(DOMAIN quick_done) :
         potential_dupes' = Collect(order, quick_done, EmptyMap)
    /\ pc' = "full"
    /\ UNCHANGED <<fs, dirs, files, size_entries, size_map, quick_done, full_done,
                   duplicates, faults, dropped, partial,
                   outVars>>

\* group_by_full_hash: one worker's closure over one candidate group
FullHashGroup(q) ==
    /\ pc = "full"
    /\ q \in DOMAIN FullInput
    /\ q \notin DOMAIN full_done
    /\ LET group == FullInput[q]
       IN  \E o \in [DOMAIN group -> UNION {FullOutcomes(c) : c \in Contents}] :
             /\ \A i \in DOMAIN group : o[i] \in FullOutcomes(fs[group[i]])
             /\ LookupFaults + NumLookupFaults(o) <= MaxLookupFaults
             /\ faults + NumReadFaults(o) <= MaxReadFaults
             /\ full_done' = InsertAll(full_done, q :> FullGroup(fs, group, o))
             /\ faults' = faults + NumReadFaults(o)
             /\ dropped' = AddDrops(dropped, DropsOf(group, o))
             /\ partial' = partial \cup
                    {<<group[i], o[i]>> : i \in {j \in DOMAIN group : o[j] >= 0}}
    /\ UNCHANGED <<fs, dirs, pc, files, size_entries, size_map, quick_done,
                   potential_dupes, duplicates,
                   outVars>>

\* group_by_full_hash: .collect() of the workers' pairs into duplicates; return
FullCollect ==
    /\ pc = "full"
    /\ DOMAIN full_done = DOMAIN FullInput
    /\ \E order \in Orders(DOMAIN full_done) :
         duplicates' = Collect(order, full_done, EmptyMap)
    /\ pc' = "done"
    /\ UNCHANGED <<fs, dirs, files, size_entries, size_map, quick_done,
                   potential_dupes, full_done, faults, dropped, partial,
                   outVars>>

Next ==
    \/ CollectFiles
    \/ \E i \in DOMAIN size_entries : SizeLookup(i)
    \/ SizeCollect
    \/ \E s \in DOMAIN size_map : QuickHashBucket(s)
    \/ QuickCollect
    \/ \E q \in DOMAIN FullInput : FullHashGroup(q)
    \/ FullCollect

Spec == Init /\ [][Next]_vars

\* ------------------------------------------------- write_output (lib.rs)
\* Ordering::cmp on two u64: Less, Equal, Greater
Cmp(x, y) == IF x < y THEN 0 - 1 ELSE IF x = y THEN 0 ELSE 1

\* (faulty variant: the comparator with its operands the other way round)
SortCmpAscending(a, b) == Cmp(a[1], b[1])

\* the comparator handed to sort_by: |a, b| b.0.cmp(&a.0)
SortCmp(a, b) == Cmp(b[1], a[1])

\* slice::sort_by is a stable sort: x is placed behind every element that the
\* comparator does not order after it
RECURSIVE InsertSorted(_, _)
InsertSorted(s, x) ==
    IF s = <<>> THEN <<x>>
    ELSE IF SortCmp(Head(s), x) <= 0
         THEN <<Head(s)>> \o InsertSorted(Tail(s), x)
         ELSE <<x>> \o s

RECURSIVE SortLoop(_, _)
SortLoop(s, acc) ==
    IF s = <<>> THEN acc ELSE SortLoop(Tail(s), InsertSorted(acc, Head(s)))

SortBy(s) == SortLoop(s, <<>>)

\* usize::saturating_sub
SaturatingSub(x, y) == IF x < y THEN 0 ELSE x - y

\* `*` and `+` on u64 in a build without overflow checks: the result wraps
WrappingMul(x, y) == (x * y) % (U64_MAX + 1)
WrappingAdd(x, y) == (x + y) % (U64_MAX + 1)

\* entries.iter().map(|(size, paths)| size * (paths.len().saturating_sub(1))).sum()
RECURSIVE TotalSavings(_)
TotalSavings(es) ==
    IF es = <<>> THEN 0
    ELSE WrappingAdd(TotalSavings(SubSeq(es, 1, Len(es) - 1)),
                     WrappingMul(es[Len(es)][1], SaturatingSub(Len(es[Len(es)][2]), 1)))

\* a product or a partial sum of total_savings exceeds u64::MAX: a build with
\* overflow checks panics there
RECURSIVE SavingsOverflow(_, _)
SavingsOverflow(es, acc) ==
    IF es = <<>> THEN FALSE
    ELSE LET term == Head(es)[1] * SaturatingSub(Len(Head(es)[2]), 1)
         IN  \/ term > U64_MAX
             \/ acc + term > U64_MAX
             \/ SavingsOverflow(Tail(es), acc + term)

\* duplicates.into_values().map(|paths| (size, paths)).collect(): the values in
\* the map's iteration order, each with fs::metadata(&paths[0]) len, or 0 when
\* the lookup fails (ok[k] is false)
SizedEntries(tree, m, order, ok) ==
    [i \in 1..Len(order) |->
        <<IF ok[order[i]] THEN Len(tree[m[order[i]][1]]) ELSE 0, m[order[i]]>>]

\* the records handed to the writer so far: those in the file, then those
\* still in the BufWriter
Stream == report \o buffer

\* the groups written so far (the records behind the header)
Written == Len(Stream) - 1

\* the report destination: File::create fails, or it succeeds and every write
\* to the file fails (a full device), or both succeed
Destinations == {"no_create", "write_error", "writable"}

\* BufWriter::flush_buf: the buffered records reach the file when it takes them
Flushed == IF dest = "writable" THEN report \o buffer ELSE report

\* The maps a caller can hand to write_output: up to MaxGroups keys, each with
\* a vector of up to MaxGroupLen paths (the empty vector included).  Keys play
\* no part in write_output, so they are 1..n.
ReportPaths == {"a", "b"}
Groups == UNION {[1..n -> ReportPaths] : n \in 0..MaxGroupLen}
DuplicateMaps == UNION {[1..n -> Groups] : n \in 0..MaxGroups}

\* Trees for the report: only the lengths matter, and the paths are
\* interchangeable
ReportTrees == {t \in [Paths -> Contents] :
                   /\ \A p \in Paths : \A i \in DOMAIN t[p] : t[p][i] = 0
                   /\ Len(t["a"]) <= Len(t["b"])
                   /\ Len(t["c"]) = 1
                   /\ Len(t["d"]) = 1}

InitReport ==
    /\ fs \in ReportTrees
    /\ duplicates \in DuplicateMaps
    /\ dirs = <<"r1">>
    /\ pc = "report"
    /\ files = <<>>
    /\ size_entries = <<>>
    /\ size_map = EmptyMap
    /\ quick_done = EmptyMap
    /\ potential_dupes = EmptyMap
    /\ full_done = EmptyMap
    /\ faults = 0
    /\ dropped = NoDrops
    /\ partial = {}
    /\ arg = "r1"
    /\ exit_status = None
    /\ entries = <<>>
    /\ report = <<>>
    /\ result = "none"
    /\ meta_failed = 0
    /\ buffer = <<>>
    /\ dest = "untried"

\* write_output: the entries are built and sorted; `paths[0]` panics on an
\* empty vector
ReportPrepare ==
    /\ pc = "report"
    /\ IF \E k \in DOMAIN duplicates : duplicates[k] = <<>>
       THEN /\ result' = "panic"
            /\ pc' = "returned"
            /\ UNCHANGED <<entries, meta_failed>>
       ELSE /\ \E order \in Orders(DOMAIN duplicates) :
                 \E ok \in [DOMAIN duplicates -> BOOLEAN] :
                    /\ entries' = SortBy(SizedEntries(fs, duplicates, order, ok))
                    /\ meta_failed' = Cardinality({k \in DOMAIN duplicates : ~ok[k]})
            /\ pc' = "create"
            /\ UNCHANGED result
    /\ UNCHANGED <<scanVars_but_pc, arg, exit_status, report, buffer, dest>>

\* write_output: File::create(output_file)?; BufWriter::new(file)
ReportCreate ==
    /\ pc = "create"
    /\ dest' \in Destinations
    /\ IF dest' = "no_create"
       THEN result' = "Err" /\ pc' = "returned"
       ELSE pc' = "header" /\ UNCHANGED result
    /\ UNCHANGED <<scanVars_but_pc, arg, exit_status, entries, report, meta_failed,
                   buffer>>

\* write_output: the header lines and the total-savings line go into the
\* BufWriter; when total_savings overflows, the build decides between wrapping
\* and a panic behind the header lines (the BufWriter is then dropped, which
\* flushes it unless the panic aborts)
ReportHeader ==
    /\ pc = "header"
    /\ \/ /\ buffer' = <<<<"header", TotalSavings(entries)>>>>
          /\ pc' = "groups"
          /\ UNCHANGED <<report, result>>
       \/ /\ SavingsOverflow(entries, 0)
          /\ \/ report' = IF dest = "writable" THEN <<<<"header", None>>>> ELSE report
             \/ UNCHANGED report
          /\ result' = "panic"
          /\ pc' = "returned"
          /\ UNCHANGED buffer
    /\ UNCHANGED <<scanVars_but_pc, arg, exit_status, entries, meta_failed, dest>>

\* write_output: one turn of `for (size, paths) in entries`; a full BufWriter
\* is flushed to the file first, and `?` returns the error of that flush (the
\* BufWriter is then dropped: its second flush fails like the first)
ReportGroup ==
    /\ pc = "groups"
    /\ Written < Len(entries)
    /\ LET rec == <<"group", entries[Written + 1][1], entries[Written + 1][2]>>
       IN  IF Len(buffer) < BUF_WRITER_CAPACITY
           THEN /\ buffer' = Append(buffer, rec)
                /\ UNCHANGED <<pc, result, report>>
           ELSE IF dest = "writable"
                THEN /\ report' = Flushed
                     /\ buffer' = <<rec>>
                     /\ UNCHANGED <<pc, result>>
                ELSE /\ result' = "Err"
                     /\ pc' = "returned"
                     /\ buffer' = <<>>
                     /\ UNCHANGED report
    /\ UNCHANGED <<scanVars_but_pc, arg, exit_status, entries, meta_failed, dest>>

\* write_output: Ok(()); the BufWriter is dropped, and its Drop flushes the
\* buffer and ignores the result of that flush
ReportReturn ==
    /\ pc = "groups"
    /\ Written = Len(entries)
    /\ result' = "Ok"
    /\ pc' = "returned"
    /\ report' = Flushed
    /\ buffer' = <<>>
    /\ UNCHANGED <<scanVars_but_pc, arg, exit_status, entries, meta_failed, dest>>

NextReport ==
    \/ ReportPrepare
    \/ ReportCreate
    \/ ReportHeader
    \/ ReportGroup
    \/ ReportReturn

SpecReport == InitReport /\ [][NextReport]_vars

\* ---------------------------------------------------- the binary (main.rs)
\* env::args() without a directory argument
NoArg == "-"

\* the command lines tried: no argument, a path that does not exist, a regular
\* file, and the directories
MainArgs == {NoArg, "missing", "a", "r0", "r1", "r2", "top"}

\* main.rs quick_hash: one read into a buffer of 8192 bytes
main_quick_hash(content, outcome) ==
    IF outcome # Ok THEN None
    ELSE XxHash64(0, Read(content, 0, QUICK_HASH_SIZE))

\* main.rs full_hash: `while let Ok(bytes_read) = reader.read(..)` over a
\* buffer of 65536 bytes
main_full_hash(content, outcome) ==
    IF outcome = OpenErr THEN None
    ELSE Sha256(FullHashLoop(content, 0, <<>>, outcome))

\* find_duplicates, inner loop of the quick-hash pass over one size bucket
RECURSIVE MainQuickLoop(_, _, _, _, _)
MainQuickLoop(tree, bucket, o, i, m) ==
    IF i > Len(bucket) THEN m
    ELSE LET qh == main_quick_hash(tree[bucket[i]], o[i])
         IN  MainQuickLoop(tree, bucket, o, i + 1,
                           IF qh = None THEN m ELSE Push(m, qh, bucket[i]))

\* find_duplicates, inner loop of the full-hash pass over one candidate group
RECURSIVE MainFullLoop(_, _, _, _, _)
MainFullLoop(tree, group, o, i, m) ==
    IF i > Len(group) THEN m
    ELSE LET fh == main_full_hash(tree[group[i]], o[i])
         IN  MainFullLoop(tree, group, o, i + 1,
                          IF fh = None THEN m ELSE Push(m, fh, group[i]))

\* find_duplicates: `duplicates.insert(size, group)` for the digest groups of
\* hm taken in the order io, size being the metadata length of group[0] or 0
RECURSIVE MainInsertLoop(_, _, _, _, _)
MainInsertLoop(tree, hm, io, ok, m) ==
    IF io = <<>> THEN m
    ELSE LET group == hm[Head(io)]
             size == IF ok[Head(io)] THEN Len(tree[group[1]]) ELSE 0
         IN  MainInsertLoop(tree, hm, Tail(io), ok, InsertAll(m, size :> group))

\* the calls the environment has failed in this run of the binary
MainFaults == LookupFaults + faults + meta_failed

InitMain ==
    /\ fs \in Trees
    /\ arg \in MainArgs
    /\ dirs = <<>>
    /\ pc = "main"
    /\ files = <<>>
    /\ size_entries = <<>>
    /\ size_map = EmptyMap
    /\ quick_done = EmptyMap
    /\ potential_dupes = EmptyMap
    /\ full_done = EmptyMap
    /\ duplicates = EmptyMap
    /\ faults = 0
    /\ dropped = NoDrops
    /\ partial = {}
    /\ exit_status = None
    /\ entries = <<>>
    /\ report = <<>>
    /\ result = "none"
    /\ meta_failed = 0
    /\ buffer = <<>>
    /\ dest = "untried"

\* main: `if args.len() < 2 { .. return; }`; returning from main ends the
\* process with status 0
MainArgsCheck ==
    /\ pc = "main"
    /\ IF arg = NoArg
       THEN pc' = "exit" /\ exit_status' = 0
       ELSE pc' = "validate" /\ UNCHANGED exit_status
    /\ UNCHANGED <<scanVars_but_pc, arg, entries, report, result, meta_failed,
                   buffer, dest>>

\* main: `if !dir.exists() || !dir.is_dir() { error!(..); eprintln!(..); return; }`
MainValidate ==
    /\ pc = "validate"
    /\ IF ~Exists(arg) \/ ~IsDir(arg)
       THEN pc' = "exit" /\ exit_status' = 0
       ELSE pc' = "walk" /\ UNCHANGED exit_status
    /\ UNCHANGED <<scanVars_but_pc, arg, entries, report, result, meta_failed,
                   buffer, dest>>

\* find_duplicates: the WalkDir collect
MainWalk ==
    /\ pc = "walk"
    /\ files' \in Orders(Under(arg))
    /\ pc' = "main_size"
    /\ UNCHANGED <<fs, dirs, size_entries, size_map, quick_done, potential_dupes,
                   full_done, duplicates, faults, dropped, partial, outVars>>

\* find_duplicates: `for file in &files { if let Ok(metadata) = .. }`
MainSizeLoop ==
    /\ pc = "main_size"
    /\ \E ok \in [DOMAIN files -> BOOLEAN] :
         /\ Cardinality({i \in DOMAIN files : ~ok[i]}) <= MaxMainFaults
         /\ size_entries' = [i \in DOMAIN files |->
                                IF ok[i] THEN Len(fs[files[i]]) ELSE None]
         /\ size_map' = SizeMapLoop(files, size_entries', 1, EmptyMap)
         /\ dropped' = [p \in Paths |->
                           Cardinality({i \in DOMAIN files : files[i] = p /\ ~ok[i]})]
    /\ pc' = "main_quick"
    /\ UNCHANGED <<fs, dirs, files, quick_done, potential_dupes, full_done,
                   duplicates, faults, partial, outVars>>

\* find_duplicates: one turn of `for (_size, files) in size_map..filter(len > 1)`;
\* the sub-groups of 2 or more are inserted into potential_dupes by quick hash
MainQuickBucket(s) ==
    /\ pc = "main_quick"
    /\ s \in QuickTasks(size_map)
    /\ s \notin DOMAIN quick_done
    /\ \E o \in [DOMAIN size_map[s] -> QuickOutcomes] :
         /\ MainFaults + NumLookupFaults(o) <= MaxMainFaults
         /\ LET sub == FilterGroups(MainQuickLoop(fs, size_map[s], o, 1, EmptyMap))
            IN  /\ quick_done' = InsertAll(quick_done, s :> sub)
                /\ potential_dupes' = InsertAll(potential_dupes, sub)
         /\ dropped' = AddDrops(dropped, DropsOf(size_map[s], o))
    /\ UNCHANGED <<fs, dirs, pc, files, size_entries, size_map, full_done,
                   duplicates, faults, partial, outVars>>

\* find_duplicates: the quick-hash pass has taken every bucket
MainQuickEnd == pc = "main_quick" /\ DOMAIN quick_done = QuickTasks(size_map)

\* find_duplicates: one turn of `for (_qh, files) in potential_dupes`; the
\* digest groups of 2 or more are inserted into duplicates by size
MainFullGroup(q) ==
    /\ pc = "main_full" \/ MainQuickEnd
    /\ q \in DOMAIN potential_dupes
    /\ q \notin DOMAIN full_done
    /\ LET group == potential_dupes[q]
       IN  \E o \in [DOMAIN group -> UNION {FullOutcomes(c) : c \in Contents}] :
             /\ \A i \in DOMAIN group : o[i] \in FullOutcomes(fs[group[i]])
             /\ MainFaults + NumLookupFaults(o) + NumReadFaults(o) <= MaxMainFaults
             /\ LET hm == FilterGroups(MainFullLoop(fs, group, o, 1, EmptyMap))
                IN  \E io \in Orders(DOMAIN hm) : \E ok \in [DOMAIN hm -> BOOLEAN] :
                       /\ MainFaults + NumLookupFaults(o) + NumReadFaults(o)
                             + Cardinality({d \in DOMAIN hm : ~ok[d]}) <= MaxMainFaults
                       /\ meta_failed' =
                             meta_failed + Cardinality({d \in DOMAIN hm : ~ok[d]})
                       /\ full_done' = InsertAll(full_done, q :> hm)
                       /\ duplicates' = MainInsertLoop(fs, hm, io, ok, duplicates)
             /\ faults' = faults + NumReadFaults(o)
             /\ dropped' = AddDrops(dropped, DropsOf(group, o))
             /\ partial' = partial \cup
                    {<<group[i], o[i]>> : i \in {j \in DOMAIN group : o[j] >= 0}}
    /\ pc' = "main_full"
    /\ UNCHANGED <<fs, dirs, files, size_entries, size_map, quick_done,
                   potential_dupes, arg, exit_status, entries, report, result,
                   buffer, dest>>

\* find_duplicates: the full-hash pass has taken every group; it returns
MainFullEnd ==
    /\ pc = "main_full" \/ MainQuickEnd
    /\ DOMAIN full_done = DOMAIN potential_dupes

\* main: `if duplicates.is_empty() { println!("No duplicate files found.") }`
MainNoDuplicates ==
    /\ MainFullEnd
    /\ duplicates = EmptyMap
    /\ pc' = "exit"
    /\ exit_status' = 0
    /\ UNCHANGED <<scanVars_but_pc, arg, entries, report, result, meta_failed,
                   buffer, dest>>

\* main.rs write_output: the records of the report, the entries being
\* duplicates.into_iter().collect() sorted by `b.0.cmp(&a.0)`
MainRecords(es) ==
    <<<<"header">>>> \o [i \in 1..Len(es) |-> <<"group", es[i][1], es[i][2]>>]

\* main.rs write_output: File::create(..).expect(..) and every
\* writeln!(..).unwrap(); a panic ends the process with status 101, leaving
\* the n records written before it
MainWriteOutput ==
    /\ MainFullEnd
    /\ duplicates # EmptyMap
    /\ \E order \in Orders(DOMAIN duplicates) :
         entries' = SortBy([i \in 1..Len(order) |-> <<order[i], duplicates[order[i]]>>])
    /\ \/ /\ report' = MainRecords(entries')
          /\ exit_status' = 0
          /\ dest' = "writable"
       \/ \E n \in 0..Len(entries') :
             /\ report' = SubSeq(MainRecords(entries'), 1, n)
             /\ exit_status' = 101
             /\ dest' = IF n = 0 THEN "no_create" ELSE "write_error"
    /\ pc' = "exit"
    /\ UNCHANGED <<scanVars_but_pc, arg, result, meta_failed, buffer>>

NextMain ==
    \/ MainArgsCheck
    \/ MainValidate
    \/ MainWalk
    \/ MainSizeLoop
    \/ \E s \in DOMAIN size_map : MainQuickBucket(s)
    \/ \E q \in DOMAIN potential_dupes : MainFullGroup(q)
    \/ MainNoDuplicates
    \/ MainWriteOutput

SpecMain == InitMain /\ [][NextMain]_vars

\* ----------------------------------------------------------------- claims
Done == pc = "done"

Members(m) == UNION {Range(m[k]) : k \in DOMAIN m}

\* p was read without any error in this run
Readable(p) == dropped[p] = 0 /\ \A x \in partial : x[1] # p

\* every root is passed once
DistinctRoots == \A i, j \in DOMAIN dirs : i # j => dirs[i] # dirs[j]

InSameGroup(A, B) == \E k \in DOMAIN duplicates : {A, B} \subseteq Range(duplicates[k])

\* C1 (as claimed): any two distinct readable files under the roots with
\* identical contents are in one group of the returned map.
C1_Completeness ==
    Done => \A A, B \in Range(files) :
                (A # B /\ fs[A] = fs[B] /\ Readable(A) /\ Readable(B)) => InSameGroup(A, B)

\* C2 (as claimed): no group of the returned map holds two files of different
\* contents; every member of the group under key d has digest d.
C2_Soundness ==
    Done => \A A, B \in Range(files) :
                fs[A] # fs[B] =>
                    /\ ~InSameGroup(A, B)
                    /\ \A d \in DOMAIN duplicates :
                           A \in Range(duplicates[d]) => Sha256(fs[A]) = d

NoDuplicateEntries ==
    \A i, j \in DOMAIN files : i # j => fs[files[i]] # fs[files[j]]

KeysAndMembers(m) == [k \in DOMAIN m |-> Range(m[k])]

\* C4 (as claimed): a second run on the same tree without failures, with any
\* walk order and any order of merging the workers' results, returns the same
\* keys with the same member sets as this run (already for roots passed once).
C4_Determinism ==
    (Done /\ LookupFaults = 0 /\ faults = 0 /\ DistinctRoots) =>
        \A w \in Walks(dirs) : \A r \in Scans(fs, Concat(w)) :
            KeysAndMembers(r) = KeysAndMembers(duplicates)

\* the file lists left when, for each path p, dropped[p] of its entries are removed
Remaining(d) == \A p \in Paths : d[p] = 0

RECURSIVE WithoutAll(_, _)
WithoutAll(fl, d) ==
    IF fl = <<>> THEN (IF Remaining(d) THEN {<<>>} ELSE {})
    ELSE LET p == Head(fl)
         IN  {<<p>> \o r : r \in WithoutAll(Tail(fl), d)}
             \cup (IF d[p] > 0 THEN WithoutAll(Tail(fl), [d EXCEPT ![p] = @ - 1]) ELSE {})

\* C5 (as claimed): when files failed their metadata lookup or failed to open
\* for quick or full hashing, the scan returns the groups that a scan of the
\* tree without those files returns (already for roots passed once).
C5_FailureExcludesOnlyThatFile ==
    (Done /\ faults = 0 /\ DistinctRoots) =>
        \E fl \in WithoutAll(files, dropped) : duplicates \in Scans(fs, fl)

\* C6 (as claimed): a file whose full-hash read failed part-way, after at
\* least one chunk was read, is in no group of the returned map.
C6_PartialReadDropped ==
    Done => \A x \in partial :
                (x[2] >= 1 /\ CountIn(files, x[1]) = 1) => x[1] \notin Members(duplicates)

\* no two workers of the quick-hash stage produced the same quick-hash key
DisjointQuickKeys ==
    \A s, t \in DOMAIN quick_done :
        s # t => DOMAIN quick_done[s] \cap DOMAIN quick_done[t] = {}

SizeCandidates == UNION {Range(size_map[s]) : s \in QuickTasks(size_map)}
QuickCandidates == Members(potential_dupes)
Confirmed == Members(duplicates)

\* C7: the paths in the size buckets of 2 or more files contain the paths of
\* the quick-hash stage's groups, which contain the paths of the returned map;
\* every one of them is a discovered file.
C7_MonotonicPruning ==
    /\ SizeCandidates \subseteq Range(files)
    /\ pc \in {"full", "done"} => QuickCandidates \subseteq SizeCandidates
    /\ Done => Confirmed \subseteq QuickCandidates

C7_Witness ==
    /\ Done
    /\ Confirmed # {}
    /\ Confirmed # QuickCandidates
    /\ QuickCandidates # SizeCandidates

\* C8 (as claimed): when the path given to the binary does not exist or is not
\* a directory, the binary exits with a non-success status and has scanned
\* nothing.
C8_InvalidRootIsError ==
    (pc = "exit" /\ arg # NoArg /\ (~Exists(arg) \/ ~IsDir(arg))) =>
        /\ exit_status # 0
        /\ files = <<>>
        /\ report = <<>>

\* the report lists A and B as members of one group
ListedTogether(A, B) ==
    \E i \in DOMAIN report :
        /\ report[i][1] = "group"
        /\ {A, B} \subseteq Range(report[i][3])

\* C9 (as claimed): after a run of the binary in which no lookup and no read
\* failed and the report was written, any two files of the scanned directory
\* with identical contents are listed in one group of the report.
C9_ReportListsAllGroups ==
    (pc = "exit" /\ IsDir(arg) /\ LookupFaults = 0 /\ faults = 0 /\ meta_failed = 0
       /\ exit_status = 0) =>
        \A A, B \in Under(arg) :
            (A # B /\ fs[A] = fs[B]) => ListedTogether(A, B)

\* the group records of the report, in the order written
GroupRecords == [i \in 1..Written |-> Stream[i + 1]]

\* C10: in the report of write_output any group written earlier has a size
\* greater than or equal to that of any group written later, the size being
\* the length of the group's first path or 0.
C10_ReportSortedBySize ==
    pc \in {"groups", "returned"} =>
        /\ \A i, j \in 1..Written :
               i < j => GroupRecords[i][2] >= GroupRecords[j][2]
        /\ \A i \in 1..Written :
               GroupRecords[i][2] \in {0, Len(fs[GroupRecords[i][3][1]])}
        /\ meta_failed = 0 =>
               \A i \in 1..Written : GroupRecords[i][2] = Len(fs[GroupRecords[i][3][1]])

C10_Witness ==
    /\ result = "Ok"
    /\ Written = 2
    /\ GroupRecords[1][2] = 2
    /\ GroupRecords[2][2] = 0
    /\ meta_failed = 1
    /\ GroupRecords[2][3] = duplicates[1]
    /\ GroupRecords[1][3] # duplicates[1]

\* the sum of size x (count - 1) over the entries, as a mathematical integer
RECURSIVE ExactSavings(_)
ExactSavings(es) ==
    IF es = <<>> THEN 0
    ELSE Head(es)[1] * SaturatingSub(Len(Head(es)[2]), 1) + ExactSavings(Tail(es))

\* C11 (as claimed): once write_output is past the savings line, the figure
\* in the report is the exact sum of size x (count - 1) over the groups and
\* the call has not panicked on it.
C11_SavingsExact ==
    (pc \in {"groups", "returned"} /\ Stream # <<>>) =>
        Stream[1] = <<"header", ExactSavings(entries)>>

\* C12 (as claimed): when the report file cannot be created, or cannot be
\* written, write_output returns an error (the savings figure being one that
\* does not overflow, so that the call gets to its end).
C12_WriteFailureReturnsErr ==
    (pc = "returned" /\ dest \in {"no_create", "write_error"}
       /\ ~SavingsOverflow(entries, 0)) =>
        result = "Err"

\* the quick-hash sub-groups of 2 or more files that the buckets' workers returned
SubGroups == UNION {{quick_done[s][k] : k \in DOMAIN quick_done[s]} : s \in DOMAIN quick_done}

\* the candidate groups handed to the full-hash stage
CandidateGroups == {potential_dupes[q] : q \in DOMAIN potential_dupes}

\* C13 (as claimed): the candidate groups handed to the full-hash stage are
\* exactly the sub-groups of 2 or more files of all size buckets of 2 or more
\* files; none is replaced or lost because another bucket has a sub-group of
\* the same quick-hash value (already for roots passed once).
C13_BucketsIndependent ==
    (pc \in {"full", "done"} /\ DistinctRoots) => CandidateGroups = SubGroups

\* how often the scan has looked up the size of p, quick-hashed p, full-hashed p
TimesSized(p) ==
    Cardinality({i \in DOMAIN files : files[i] = p /\ size_entries[i] # Pending})

TimesQuickHashed(p) ==
    Cardinality({<<s, i>> \in (DOMAIN quick_done) \X (1..Len(files)) :
                    i \in DOMAIN size_map[s] /\ size_map[s][i] = p})

TimesFullHashed(p) ==
    Cardinality({<<q, i>> \in (DOMAIN full_done) \X (1..Len(files)) :
                    i \in DOMAIN FullInput[q] /\ FullInput[q][i] = p})

\* the state of file p: 0 Discovered, 1 Sized, 2 QuickHashed, 3 FullHashed,
\* 4 Confirmed, by the last stage that has handled it
FileState(p) ==
    IF Done /\ p \in Members(duplicates) THEN 4
    ELSE IF TimesFullHashed(p) > 0 THEN 3
    ELSE IF TimesQuickHashed(p) > 0 THEN 2
    ELSE IF TimesSized(p) > 0 THEN 1
    ELSE 0

\* p has left into Dropped: a lookup, open or single read of it has failed
IsDropped(p) == dropped[p] > 0

NoRetry ==
    \A p \in Paths :
        TimesSized(p) <= 1 /\ TimesQuickHashed(p) <= 1 /\ TimesFullHashed(p) <= 1

DroppedStaysOut ==
    \A p \in Paths : (IsDropped(p) /\ Done) => p \notin Members(duplicates)

ForwardOnly ==
    \A p \in Paths :
        /\ FileState(p)' >= FileState(p)
        /\ IsDropped(p) => (IsDropped(p)' /\ FileState(p)' = FileState(p))

\* C14 (as claimed): no file is sized, quick-hashed or full-hashed more than
\* once in a scan; a file's state never moves backward; a Dropped file stays
\* Dropped, is handled by no later stage and is not in the returned map.
C14_PerFileStateMachine ==
    [](NoRetry /\ DroppedStaysOut) /\ [][ForwardOnly]_vars

\* the walker has finished and every metadata lookup of the run has completed
AllSized == pc # "start" /\ \A i \in DOMAIN size_entries : size_entries[i] # Pending

\* every quick hash of the run has completed: every bucket of 2 or more files
\* has been handled
AllQuickHashed == AllSized /\ pc # "size" /\ DOMAIN quick_done = QuickTasks(size_map)

\* C15: whenever a worker quick-hashes the files of a bucket, the walker has
\* finished and every metadata lookup has completed; whenever a worker
\* full-hashes the files of a group, every quick hash has completed.
C15_StagesOrdered ==
    /\ [](quick_done # EmptyMap => AllSized)
    /\ [](full_done # EmptyMap => AllQuickHashed)
    /\ [][quick_done' # quick_done => AllSized]_vars
    /\ [][full_done' # full_done => AllQuickHashed]_vars

C15_Witness ==
    /\ pc = "full"
    /\ Cardinality(DOMAIN quick_done) = 2
    /\ full_done # EmptyMap
    /\ DOMAIN full_done # DOMAIN FullInput
    /\ LookupFaults > 0

\* the paths that got a size
SizedFiles == {files[i] : i \in {j \in DOMAIN files : size_entries[j] \notin {Pending, None}}}

\* no other sized file has the length of p
UniqueLength(p) ==
    \A p2 \in SizedFiles \ {p} : Len(fs[p2]) # Len(fs[p])

\* no other file of p's size bucket has a first block hashing to the quick hash of p
UniqueQuickHash(p) ==
    \A p2 \in SizedFiles \ {p} :
        Len(fs[p2]) = Len(fs[p]) => quick_hash(fs[p2], Ok) # quick_hash(fs[p], Ok)

\* C16 (as claimed): once all files are sized, a file whose length is unique
\* among them is never opened for quick hashing, and a file whose quick hash
\* is unique in its size bucket is never opened for full hashing.
C16_SingletonsNotOpened ==
    AllSized =>
        \A p \in SizedFiles :
            /\ UniqueLength(p) => TimesQuickHashed(p) = 0
            /\ (pc \in {"full", "done"} /\ UniqueQuickHash(p)) => TimesFullHashed(p) = 0

\* ------------------------------------------ quick_hash, read by read
\* Read::read may return any number of bytes from 1 up to what the buffer and
\* the rest of the file allow (0 only at end of file or into an empty buffer)
ReadReturns(content, pos, buflen) ==
    LET avail == Min(buflen, Len(content) - pos)
    IN  IF avail <= 0 THEN {0} ELSE 1..avail

\* quick_hash with block `buf`: one call of read, then hasher.write(&buffer[..bytes_read]).
\* outcome is OpenErr, ReadErr, Ok (the read fills all it can) or bytes_read
quick_hash_read(content, buf, outcome) ==
    IF outcome \in {OpenErr, ReadErr} THEN None
    ELSE LET bytes_read == IF outcome = Ok THEN Min(Len(buf), Len(content)) ELSE outcome
             filled == [i \in DOMAIN buf |-> IF i <= bytes_read THEN content[i] ELSE buf[i]]
         IN  XxHash64(0, SubSeq(filled, 1, bytes_read))

\* what the environment can do to one call of quick_hash on content
QuickReadOutcomes(content, buf) ==
    {Ok, OpenErr, ReadErr} \cup (ReadReturns(content, 0, Len(buf)) \ {Min(Len(buf), Len(content))})

\* group_by_quick_hash, one bucket, with the block `buf` and these outcomes
RECURSIVE QuickLoopRead(_, _, _, _, _, _)
QuickLoopRead(tree, bucket, buf, o, i, m) ==
    IF i > Len(bucket) THEN m
    ELSE LET qh == quick_hash_read(tree[bucket[i]], buf, o[i])
         IN  QuickLoopRead(tree, bucket, buf, o, i + 1,
                           IF qh = None THEN m ELSE Push(m, qh, bucket[i]))

QuickBucketRead(tree, bucket, buf, o) ==
    FilterGroups(QuickLoopRead(tree, bucket, buf, o, 1, EmptyMap))

\* the zeroed blocks: the length of the pipeline's block up to MaxBlock
Blocks == {[i \in 1..n |-> 0] : n \in QUICK_HASH_SIZE..MaxBlock}

\* one size bucket of two files
InitQuickHash ==
    /\ fs \in {t \in [Paths -> Contents] :
                 /\ Len(t["a"]) = Len(t["b"])
                 /\ t["c"] = <<0>> /\ t["d"] = <<0>>}
    /\ dirs = <<"r1">>
    /\ pc = "quick"
    /\ files = <<"a", "b">>
    /\ size_entries = <<Len(fs["a"]), Len(fs["b"])>>
    /\ size_map = (Len(fs["a"]) :> <<"a", "b">>)
    /\ quick_done = EmptyMap
    /\ potential_dupes = EmptyMap
    /\ full_done = EmptyMap
    /\ duplicates = EmptyMap
    /\ faults = 0
    /\ dropped = NoDrops
    /\ partial = {}
    /\ arg = "r1"
    /\ exit_status = None
    /\ entries = <<>>
    /\ report = <<>>
    /\ result = "none"
    /\ meta_failed = 0
    /\ buffer \in Blocks
    /\ dest = "untried"

\* group_by_quick_hash: one worker's closure over one size bucket, each
\* quick_hash doing its single read
QuickHashBucketRead(s) ==
    /\ pc = "quick"
    /\ s \in QuickTasks(size_map)
    /\ s \notin DOMAIN quick_done
    /\ LET bucket == size_map[s]
       IN  \E o \in [DOMAIN bucket -> {Ok, OpenErr, ReadErr} \cup (1..MaxBlock)] :
             /\ \A i \in DOMAIN bucket : o[i] \in QuickReadOutcomes(fs[bucket[i]], buffer)
             /\ quick_done' = InsertAll(quick_done, s :> QuickBucketRead(fs, bucket, buffer, o))
             /\ dropped' = AddDrops(dropped, DropsOf(bucket, o))
             /\ partial' = partial \cup
                    {<<bucket[i], o[i]>> : i \in {j \in DOMAIN bucket : o[j] >= 0}}
    /\ UNCHANGED <<fs, dirs, pc, files, size_entries, size_map, potential_dupes,
                   full_done, duplicates, faults,
                   outVars>>

NextQuickHash ==
    \/ \E s \in DOMAIN size_map : QuickHashBucketRead(s)
    \/ QuickCollect

SpecQuickHash == InitQuickHash /\ [][NextQuickHash]_vars

\* the first min(block, length) bytes of p
FirstBlock(p) == SubSeq(fs[p], 1, Min(Len(buffer), Len(fs[p])))

\* the bucket's files that share a quick hash with another one are in one sub-group
SameQuickHash(p, q) ==
    \E s \in DOMAIN quick_done : \E k \in DOMAIN quick_done[s] :
        {p, q} \subseteq Range(quick_done[s][k])

\* C17 (as claimed): two files that were opened and read without error and whose
\* first min(block, length) bytes are equal get the same quick hash, whatever
\* number of bytes each read returned.
C17_QuickHashOfFirstBlock ==
    (DOMAIN quick_done = QuickTasks(size_map)) =>
        \A p, q \in Range(files) :
            (p # q /\ dropped[p] = 0 /\ dropped[q] = 0 /\ FirstBlock(p) = FirstBlock(q))
                => SameQuickHash(p, q)

\* ------------------------------------------------------------ termination
\* the trees of the fair scans: a and b hold any contents, c and d differ in length
FairTrees == {t \in [Paths -> Contents] :
                 /\ Sha256(t["a"]) <= Sha256(t["b"])
                 /\ t["c"] = <<0>>
                 /\ t["d"] = <<0, 0>>}

InitFair ==
    /\ fs \in FairTrees
    /\ dirs \in UNION {[1..n -> Roots] : n \in 1..MaxDirs}
    /\ pc = "start"
    /\ files = <<>>
    /\ size_entries = <<>>
    /\ size_map = EmptyMap
    /\ quick_done = EmptyMap
    /\ potential_dupes = EmptyMap
    /\ full_done = EmptyMap
    /\ duplicates = EmptyMap
    /\ faults = 0
    /\ dropped = NoDrops
    /\ partial = {}
    /\ arg = "r1"
    /\ exit_status = None
    /\ entries = <<>>
    /\ report = <<>>
    /\ result = "none"
    /\ meta_failed = 0
    /\ buffer = <<>>
    /\ dest = "untried"

\* The calling thread and the pool's workers keep running: a step that can be
\* taken (a closure on a file or bucket, a collect) is eventually taken.
SpecFair == InitFair /\ [][Next]_vars /\ WF_vars(Next)

\* the worker closures that have not run yet
PendingLookups == {i \in DOMAIN size_entries : pc = "size" /\ size_entries[i] = Pending}
PendingBuckets == {s \in QuickTasks(size_map) : pc = "quick" /\ s \notin DOMAIN quick_done}
PendingGroups == {q \in DOMAIN FullInput : pc = "full" /\ q \notin DOMAIN full_done}

\* every closure that has not run can run now, whatever the others have done
NoWorkerWaits ==
    /\ \A i \in PendingLookups : ENABLED SizeLookup(i)
    /\ \A s \in PendingBuckets : ENABLED QuickHashBucket(s)
    /\ \A q \in PendingGroups : ENABLED FullHashGroup(q)

\* C18: under every schedule of the workers and every choice of failing
\* lookups and reads, the scan reaches its return with a map, and on the way
\* no closure waits for another one.
C18_Terminates == <>Done /\ []NoWorkerWaits

C18_Witness ==
    /\ Done
    /\ Cardinality(DOMAIN dirs) = 2
    /\ LookupFaults > 0
    /\ faults > 0
    /\ duplicates # EmptyMap

\* ------------------------------------------------------- paths in the output
\* how often path p is listed in the returned map
Occurrences(p) ==
    Cardinality({<<d, i>> \in (DOMAIN duplicates) \X (1..Len(files)) :
                    i \in DOMAIN duplicates[d] /\ duplicates[d][i] = p})

\* C19 (as claimed): each path is listed at most once in the whole returned
\* map, so every group has at least 2 distinct files, also when a root is
\* passed more than once.
C19_EachPathOnce ==
    Done => /\ \A p \in Paths : Occurrences(p) <= 1
            /\ \A d \in DOMAIN duplicates : Cardinality(Range(duplicates[d])) >= 2
====
